---------------------------- MODULE Spec2Model ----------------------------
(***************************************************************************)
(* Progress-sync endpoint of kana-dojo (app/api/progress-sync/route.ts):   *)
(* the GET (Fetch) and POST (Submit) handlers over a key-value store with  *)
(* TTL.  Each handler is cut at its awaits on the store, so that requests  *)
(* served concurrently interleave exactly where the code yields.           *)
(***************************************************************************)
EXTENDS Integers, Sequences, FiniteSets, TLC

(***************************************************************************)
(* Bounds of the model.                                                    *)
(***************************************************************************)
\* Client instants range over 1..MaxInstant.
MaxInstant == 2
\* The server clock runs from 0 to MaxClock.
MaxClock == 2

\* The requests served in one behaviour, in their order of arrival.
Reqs == {1, 2, 3}

(***************************************************************************)
(* JSON values.  null/undefined is Null; a non-object value carries a      *)
(* jsonType tag; an object is a record of its fields.  An ISO-8601 string  *)
(* is [instant, zone]: two strings with the same instant and different     *)
(* zone spellings are different strings denoting the same instant.         *)
(***************************************************************************)
Null == [jsonType |-> "null"]
JArray == [jsonType |-> "array"]
JNumber == [jsonType |-> "number"]
JText == [jsonType |-> "string", text |-> "not-a-date"]
Iso(i, z) == [jsonType |-> "string", instant |-> i, zone |-> z]

IsObject(v) == "jsonType" \notin DOMAIN v
IsString(v) == ~IsObject(v) /\ v.jsonType = "string"

NaN == 0 - 1
\* Date.parse of a string: the instant it denotes, NaN when it is no date.
DateParse(s) == IF "instant" \in DOMAIN s THEN s.instant ELSE NaN

\* new Date().toISOString() at server time c: always the Z spelling.
ToISOString(c) == Iso(c, "Z")

\* Timestamps a client may assert: every instant in the Z spelling, and
\* instant 1 also with an explicit offset.
ClientTimestamps ==
    {Iso(i, "Z") : i \in 1..MaxInstant} \cup {Iso(1, "+00:00")}

\* Snapshots: opaque objects, known here by a label and a serialized size.
Snapshot(l, n) == [label |-> l, bytes |-> n]
SerializedSize(s) == s.bytes

(***************************************************************************)
(* lib.ts (not among the sources; modelled from the specification).        *)
(***************************************************************************)
PROGRESS_SYNC_TTL_SECONDS == 2
MAX_SYNC_KEY_LENGTH == 2
MAX_SNAPSHOT_BYTES == 2

AllowedChars == {"a", "b", "-"}
Space == " "

RECURSIVE TrimStart(_)
TrimStart(s) ==
    IF s # <<>> /\ Head(s) = Space THEN TrimStart(Tail(s)) ELSE s

RECURSIVE TrimEnd(_)
TrimEnd(s) ==
    IF s # <<>> /\ s[Len(s)] = Space
    THEN TrimEnd(SubSeq(s, 1, Len(s) - 1))
    ELSE s

Trim(s) == TrimEnd(TrimStart(s))

\* normalizeSyncKey: the header value (Null when absent) to a key or Null.
normalizeSyncKey(raw) ==
    IF raw = Null THEN Null
    ELSE LET k == Trim(raw.chars) IN
         IF k = <<>> THEN Null
         ELSE IF Len(k) > MAX_SYNC_KEY_LENGTH THEN Null
         ELSE IF \E i \in 1..Len(k) : k[i] \notin AllowedChars THEN Null
         ELSE [chars |-> k]

STORAGE_PREFIX == <<"p", "s", ":">>
buildProgressSyncStorageKey(syncKey) == STORAGE_PREFIX \o syncKey.chars

RecordFields == {"schemaVersion", "updatedAt", "serverUpdatedAt", "snapshot"}

isProgressSyncRecord(v) ==
    /\ IsObject(v)
    /\ RecordFields \subseteq DOMAIN v
    /\ v.schemaVersion = 1
    /\ IsString(v.updatedAt)
    /\ IsString(v.serverUpdatedAt)
    /\ IsObject(v.snapshot)

\* Accept unless the incoming instant is strictly earlier than the existing one.
shouldAcceptIncomingUpdate(existingUpdatedAt, incomingUpdatedAt) ==
    DateParse(incomingUpdatedAt) >= DateParse(existingUpdatedAt)

Ok(v) == [ok |-> TRUE, value |-> v]
Err(c, m) == [ok |-> FALSE, error |-> [code |-> c, message |-> m]]

validateProgressSyncRequestBody(body) ==
    IF ~IsObject(body)
    THEN Err("INVALID_PAYLOAD", "Request body must be an object.")
    ELSE IF \/ "updatedAt" \notin DOMAIN body
            \/ ~IsString(body.updatedAt)
            \/ DateParse(body.updatedAt) = NaN
    THEN Err("INVALID_PAYLOAD", "updatedAt must be a valid timestamp.")
    ELSE IF "snapshot" \notin DOMAIN body \/ ~IsObject(body.snapshot)
    THEN Err("INVALID_PAYLOAD", "snapshot must be an object.")
    ELSE IF SerializedSize(body.snapshot) > MAX_SNAPSHOT_BYTES
    THEN Err("PAYLOAD_TOO_LARGE", "snapshot is too large.")
    ELSE Ok([updatedAt |-> body.updatedAt, snapshot |-> body.snapshot])

(***************************************************************************)
(* Requests.  A header is Null (absent) or [chars |-> text]; a body either *)
(* fails request.json() or parses to a JSON value.                         *)
(***************************************************************************)
Header(s) == [chars |-> s]
S1 == Snapshot("s1", 1)
S2 == Snapshot("s2", MAX_SNAPSHOT_BYTES)
TooBig == Snapshot("big", MAX_SNAPSHOT_BYTES + 1)

Unparseable == [parses |-> FALSE]
Parsed(v) == [parses |-> TRUE, json |-> v]

\* Inputs of the concurrent specification: one key (sent with a leading
\* blank), a body that fails validation, and the valid candidates.
Headers == {Header(<<" ", "a">>)}

ValidJson ==
    {[updatedAt |-> t, snapshot |-> S1] : t \in ClientTimestamps}
    \cup {[updatedAt |-> Iso(1, "Z"), snapshot |-> S2]}

Bodies == {Parsed([snapshot |-> S1])} \cup {Parsed(v) : v \in ValidJson}

\* Inputs of the sequential specification: every shape of header and body.
AllHeaders ==
    {Null, Header(<<"a">>), Header(<<" ", "a", " ">>), Header(<<"b">>),
     Header(<<"a", "!">>), Header(<<" ">>), Header(<<"a", "b", "a">>)}

ExtraFieldsJson ==
    [updatedAt |-> Iso(1, "Z"), snapshot |-> S1,
     serverUpdatedAt |-> Iso(MaxClock, "Z"), schemaVersion |-> 7]

InvalidJson ==
    {Null, JArray,
     [snapshot |-> S1],
     [updatedAt |-> JText, snapshot |-> S1],
     [updatedAt |-> JNumber, snapshot |-> S1],
     [updatedAt |-> Iso(1, "Z")],
     [updatedAt |-> Iso(1, "Z"), snapshot |-> JText],
     [updatedAt |-> Iso(1, "Z"), snapshot |-> TooBig]}

AllBodies ==
    {Unparseable}
    \cup {Parsed(v) : v \in InvalidJson \cup {ExtraFieldsJson}}
    \cup {Parsed([updatedAt |-> t, snapshot |-> S1]) : t \in ClientTimestamps}

SyncKeys == {normalizeSyncKey(h) : h \in AllHeaders} \ {Null}
StorageKeys == {buildProgressSyncStorageKey(k) : k \in SyncKeys}
\* The keys under which another writer may have left a value.
ForeignKeys == {buildProgressSyncStorageKey(Header(<<"a">>))}

(***************************************************************************)
(* The key-value store (shared/lib/redis, an external collaborator): each  *)
(* storage key holds a JSON value and the time at which it expires         *)
(* (0: never).  An absent key holds Null.                                  *)
(***************************************************************************)
Absent == [value |-> Null, expires |-> 0]
\* A value some other writer left under the key: an older schema.
Foreign ==
    [value |-> [schemaVersion |-> 2, updatedAt |-> Iso(MaxInstant, "Z"),
                serverUpdatedAt |-> Iso(0, "Z"), snapshot |-> Snapshot("s1", 1)],
     expires |-> 0]

VARIABLES
    redisConfigured,  \* hasRedisConfig(), fixed at boot
    store,            \* storage key -> entry
    clock,            \* the server's wall clock
    pc,               \* per request: "idle", "read", "write", "done"
    req,              \* per request: the request being served
    storageKey,       \* per request: the handler's storageKey
    candidate,        \* per request: validation.value
    existing,         \* per request: what the handler read from the store
    nextRecord,       \* per request: the record the handler is writing
    resp,             \* per request: the response returned
    reads,            \* per request: store reads issued by this request
    writes,           \* per request: store writes issued by this request
    storeError,       \* per request: the store call that threw, if any
    expired,          \* history: per key, the last value its TTL removed
    raced,            \* history: a Submit read a key another was about to write
    lastWrite         \* history: per key, the request whose write landed last

local == <<pc, req, storageKey, candidate, existing, nextRecord, resp,
           reads, writes, storeError>>
history == <<expired, raced, lastWrite>>
vars == <<redisConfigured, store, clock, history, local>>

NoRequest == [method |-> "NONE", header |-> Null, body |-> Unparseable]
NoResponse == [status |-> 0, body |-> Null]
NoKey == <<>>

redisGetJson(st, key) == st[key].value

redisSetJson(st, key, value, ttl, now) ==
    [st EXCEPT ![key] = [value |-> value, expires |-> now + ttl]]

\* Time passing in the store: entries whose TTL has run out disappear.
Expire(st, now) ==
    [k \in DOMAIN st |->
        IF st[k].expires > 0 /\ st[k].expires <= now THEN Absent ELSE st[k]]

(***************************************************************************)
(* route.ts                                                                *)
(***************************************************************************)
NoExtra == [x \in {} |-> x]

createErrorResponse(status, code, message, extra) ==
    [status |-> status,
     body |-> extra @@ [status |-> status, code |-> code,
                        message |-> message, error |-> message]]

\* Faulty variant: the header is used as it came, without normalizeSyncKey.
resolveSyncKeyRaw(request) == request.header

resolveSyncKey(request) == normalizeSyncKey(request.header)

\* Faulty variant: the configuration is never looked at.
ensureSyncAvailableSkipped(configured) == Null

ensureSyncAvailable(configured) ==
    IF ~configured
    THEN createErrorResponse(503, "SYNC_UNAVAILABLE",
                             "Progress sync backend is not configured.", NoExtra)
    ELSE Null

InvalidSyncKeyResponse ==
    createErrorResponse(400, "INVALID_SYNC_KEY",
                        "x-sync-key is missing or invalid.", NoExtra)

InvalidJsonResponse ==
    createErrorResponse(400, "INVALID_PAYLOAD",
                        "Request body must be valid JSON.", NoExtra)

\* Faulty variant: every validation failure is a 400.
ValidationErrorAlways400(error) ==
    createErrorResponse(400, error.code, error.message, NoExtra)

ValidationErrorResponse(error) ==
    createErrorResponse(IF error.code = "PAYLOAD_TOO_LARGE" THEN 413 ELSE 400,
                        error.code, error.message, NoExtra)

\* Faulty variant: an empty key is reported as a failure of the server.
NotFoundAsServerError ==
    createErrorResponse(500, "SERVER_ERROR",
                        "No synced progress found for this key.", NoExtra)

NotFoundResponse ==
    createErrorResponse(404, "NOT_FOUND",
                        "No synced progress found for this key.", NoExtra)

\* Faulty variant: serverUpdatedAt is taken anew when the record is fetched.
FetchedResponseNow(stored) ==
    [status |-> 200,
     body |-> [updatedAt |-> stored.updatedAt,
               serverUpdatedAt |-> ToISOString(clock),
               snapshot |-> stored.snapshot]]

\* Faulty variant: the stored record is returned whole.
FetchedResponseWhole(stored) == [status |-> 200, body |-> stored]

FetchedResponse(stored) ==
    [status |-> 200,
     body |-> [updatedAt |-> stored.updatedAt,
               serverUpdatedAt |-> stored.serverUpdatedAt,
               snapshot |-> stored.snapshot]]

\* Faulty variant: the error of the store is passed on to the caller.
GetFailedWithCause ==
    createErrorResponse(500, "SERVER_ERROR",
                        "Failed to fetch synced progress.",
                        [cause |-> "ECONNREFUSED"])

GetFailedResponse ==
    createErrorResponse(500, "SERVER_ERROR",
                        "Failed to fetch synced progress.", NoExtra)

\* Faulty variant: the stored value is trusted without the structural check.
ExistingRecordUnchecked(v) == v

\* Faulty variant: a missing record is replaced by an empty one stamped now.
ExistingRecordOrFresh(v) ==
    IF isProgressSyncRecord(v) THEN v
    ELSE [schemaVersion |-> 1, updatedAt |-> ToISOString(clock),
          serverUpdatedAt |-> ToISOString(clock), snapshot |-> S1]

ExistingRecord(v) == IF isProgressSyncRecord(v) THEN v ELSE Null

\* Faulty variant: the negation of the resolver's answer is lost.
IsConflictNegationLost(existingRecord, value) ==
    /\ existingRecord # Null
    /\ shouldAcceptIncomingUpdate(existingRecord.updatedAt, value.updatedAt)

\* Faulty variant: a tie is a conflict.
IsConflictOnTie(existingRecord, value) ==
    /\ existingRecord # Null
    /\ DateParse(value.updatedAt) <= DateParse(existingRecord.updatedAt)

\* Faulty variant: the conflict check is left out.
IsConflictNever(existingRecord, value) == FALSE

IsConflict(existingRecord, value) ==
    /\ existingRecord # Null
    /\ ~shouldAcceptIncomingUpdate(existingRecord.updatedAt, value.updatedAt)

\* Faulty variant: latest.serverUpdatedAt repeats updatedAt.
ConflictResponseRepeated(existingRecord) ==
    createErrorResponse(409, "CONFLICT", "Sync conflict.",
        [latest |-> [updatedAt |-> existingRecord.updatedAt,
                     serverUpdatedAt |-> existingRecord.updatedAt,
                     snapshot |-> existingRecord.snapshot]])

ConflictResponse(existingRecord) ==
    createErrorResponse(409, "CONFLICT", "Sync conflict.",
        [latest |-> [updatedAt |-> existingRecord.updatedAt,
                     serverUpdatedAt |-> existingRecord.serverUpdatedAt,
                     snapshot |-> existingRecord.snapshot]])

\* Faulty variant: the record's updatedAt is the server's time.
NextRecordServerTime(value, now) ==
    [schemaVersion |-> 1,
     updatedAt |-> ToISOString(now),
     snapshot |-> value.snapshot,
     serverUpdatedAt |-> ToISOString(now)]

\* Faulty variant: serverUpdatedAt repeats what the client asserted.
NextRecordClientTime(value, now) ==
    [schemaVersion |-> 1,
     updatedAt |-> value.updatedAt,
     snapshot |-> value.snapshot,
     serverUpdatedAt |-> value.updatedAt]

NextRecord(value, now) ==
    [schemaVersion |-> 1,
     updatedAt |-> value.updatedAt,
     snapshot |-> value.snapshot,
     serverUpdatedAt |-> ToISOString(now)]

\* Faulty variant: serverUpdatedAt is taken from the clock again.
SyncedResponseNewTime(record) ==
    [status |-> 200,
     body |-> [synced |-> TRUE,
               updatedAt |-> record.updatedAt,
               serverUpdatedAt |-> ToISOString(clock)]]

SyncedResponse(record) ==
    [status |-> 200,
     body |-> [synced |-> TRUE,
               updatedAt |-> record.updatedAt,
               serverUpdatedAt |-> record.serverUpdatedAt]]

\* Faulty variant: a failed store call is reported as an unconfigured backend.
PostFailedAsUnavailable ==
    createErrorResponse(503, "SYNC_UNAVAILABLE", "Failed to sync progress.",
                        NoExtra)

PostFailedResponse ==
    createErrorResponse(500, "SERVER_ERROR", "Failed to sync progress.", NoExtra)

(***************************************************************************)
(* Initial state: the server has booted, no request has arrived; the       *)
(* store holds no record (records come from Submit only), though a key may *)
(* hold a value this code did not write.                                   *)
(***************************************************************************)
Init ==
    /\ redisConfigured \in BOOLEAN
    /\ store \in {st \in [StorageKeys -> {Absent, Foreign}] :
                      \A k \in StorageKeys \ ForeignKeys : st[k] = Absent}
    /\ clock = 0
    /\ expired = [k \in StorageKeys |-> Null]
    /\ raced = FALSE
    /\ lastWrite = [k \in StorageKeys |-> 0]
    /\ pc = [r \in Reqs |-> "idle"]
    /\ req = [r \in Reqs |-> NoRequest]
    /\ storageKey = [r \in Reqs |-> NoKey]
    /\ candidate = [r \in Reqs |-> Null]
    /\ existing = [r \in Reqs |-> Null]
    /\ nextRecord = [r \in Reqs |-> Null]
    /\ resp = [r \in Reqs |-> NoResponse]
    /\ reads = [r \in Reqs |-> 0]
    /\ writes = [r \in Reqs |-> 0]
    /\ storeError = [r \in Reqs |-> "none"]

\* Requests arrive in order, and at most two are in flight at a time.
MayArrive(p) ==
    /\ pc[p] = "idle"
    /\ p - 1 \in Reqs => pc[p - 1] # "idle"
    /\ p - 2 \in Reqs => pc[p - 2] = "done"

\* Requests served one after the other.
MayArriveAlone(p) ==
    /\ pc[p] = "idle"
    /\ \A q \in Reqs : q < p => pc[q] = "done"

\* The handler returns response r.
Return(p, r) ==
    /\ pc' = [pc EXCEPT ![p] = "done"]
    /\ resp' = [resp EXCEPT ![p] = r]

\* The handler goes on to the store under the key of syncKey.
\* Faulty variant: the storage key is built without the key of the request.
ProceedOneKey(p, syncKey) ==
    /\ pc' = [pc EXCEPT ![p] = "read"]
    /\ storageKey' =
           [storageKey EXCEPT
               ![p] = buildProgressSyncStorageKey(Header(<<"a">>))]
    /\ UNCHANGED resp

Proceed(p, syncKey) ==
    /\ pc' = [pc EXCEPT ![p] = "read"]
    /\ storageKey' =
           [storageKey EXCEPT ![p] = buildProgressSyncStorageKey(syncKey)]
    /\ UNCHANGED resp

\* GET, lines 58-70: up to the await on redisGetJson.
GetBegin(p, header) ==
    LET request == [method |-> "GET", header |-> header, body |-> Unparseable]
        unavailableResponse == ensureSyncAvailable(redisConfigured)
        syncKey == resolveSyncKey(request)
    IN  /\ pc[p] = "idle"
        /\ req' = [req EXCEPT ![p] = request]
        /\ IF unavailableResponse # Null
           THEN Return(p, unavailableResponse) /\ UNCHANGED storageKey
           ELSE IF syncKey = Null
           THEN Return(p, InvalidSyncKeyResponse) /\ UNCHANGED storageKey
           ELSE Proceed(p, syncKey)
        /\ UNCHANGED <<redisConfigured, store, clock, history, candidate,
                       existing, nextRecord, reads, writes, storeError>>

\* GET, lines 72-89: redisGetJson resolves.
\* Faulty variant: reading a record restarts its time to live.
GetReadTouch(p) ==
    LET stored == redisGetJson(store, storageKey[p])
    IN  /\ pc[p] = "read" /\ req[p].method = "GET"
        /\ reads' = [reads EXCEPT ![p] = @ + 1]
        /\ existing' = [existing EXCEPT ![p] = stored]
        /\ IF ~isProgressSyncRecord(stored)
           THEN Return(p, NotFoundResponse) /\ UNCHANGED store
           ELSE /\ Return(p, FetchedResponse(stored))
                /\ store' = redisSetJson(store, storageKey[p], stored,
                                         PROGRESS_SYNC_TTL_SECONDS, clock)
        /\ UNCHANGED <<redisConfigured, clock, history, req,
                       storageKey, candidate, nextRecord, writes, storeError>>

GetRead(p) ==
    LET stored == redisGetJson(store, storageKey[p])
    IN  /\ pc[p] = "read" /\ req[p].method = "GET"
        /\ reads' = [reads EXCEPT ![p] = @ + 1]
        /\ existing' = [existing EXCEPT ![p] = stored]
        /\ IF ~isProgressSyncRecord(stored)
           THEN Return(p, NotFoundResponse)
           ELSE Return(p, FetchedResponse(stored))
        /\ UNCHANGED <<redisConfigured, store, clock, history, req,
                       storageKey, candidate, nextRecord, writes, storeError>>

\* GET, lines 90-97: redisGetJson rejects.
GetReadFails(p) ==
    /\ pc[p] = "read" /\ req[p].method = "GET"
    /\ reads' = [reads EXCEPT ![p] = @ + 1]
    /\ storeError' = [storeError EXCEPT ![p] = "read"]
    /\ Return(p, GetFailedResponse)
    /\ UNCHANGED <<redisConfigured, store, clock, history, req, storageKey,
                   candidate, existing, nextRecord, writes>>

\* POST, lines 101-133: up to the await on redisGetJson.
\* Faulty variant: the body is looked at before the sync key.
PostBeginBodyFirst(p, header, body) ==
    LET request == [method |-> "POST", header |-> header, body |-> body]
        unavailableResponse == ensureSyncAvailable(redisConfigured)
        syncKey == resolveSyncKey(request)
        validation == validateProgressSyncRequestBody(body.json)
    IN  /\ pc[p] = "idle"
        /\ req' = [req EXCEPT ![p] = request]
        /\ IF unavailableResponse # Null
           THEN Return(p, unavailableResponse)
                /\ UNCHANGED <<storageKey, candidate>>
           ELSE IF ~body.parses
           THEN Return(p, InvalidJsonResponse)
                /\ UNCHANGED <<storageKey, candidate>>
           ELSE IF ~validation.ok
           THEN Return(p, ValidationErrorResponse(validation.error))
                /\ UNCHANGED <<storageKey, candidate>>
           ELSE IF syncKey = Null
           THEN Return(p, InvalidSyncKeyResponse)
                /\ UNCHANGED <<storageKey, candidate>>
           ELSE /\ Proceed(p, syncKey)
                /\ candidate' = [candidate EXCEPT ![p] = validation.value]
        /\ UNCHANGED <<redisConfigured, store, clock, history, existing,
                       nextRecord, reads, writes, storeError>>

PostBegin(p, header, body) ==
    LET request == [method |-> "POST", header |-> header, body |-> body]
        unavailableResponse == ensureSyncAvailable(redisConfigured)
        syncKey == resolveSyncKey(request)
        validation == validateProgressSyncRequestBody(body.json)
    IN  /\ pc[p] = "idle"
        /\ req' = [req EXCEPT ![p] = request]
        /\ IF unavailableResponse # Null
           THEN Return(p, unavailableResponse)
                /\ UNCHANGED <<storageKey, candidate>>
           ELSE IF syncKey = Null
           THEN Return(p, InvalidSyncKeyResponse)
                /\ UNCHANGED <<storageKey, candidate>>
           ELSE IF ~body.parses
           THEN Return(p, InvalidJsonResponse)
                /\ UNCHANGED <<storageKey, candidate>>
           ELSE IF ~validation.ok
           THEN Return(p, ValidationErrorResponse(validation.error))
                /\ UNCHANGED <<storageKey, candidate>>
           ELSE /\ Proceed(p, syncKey)
                /\ candidate' = [candidate EXCEPT ![p] = validation.value]
        /\ UNCHANGED <<redisConfigured, store, clock, history, existing,
                       nextRecord, reads, writes, storeError>>

\* Another Submit has read this key and not yet written it.
WriteInFlight(p) ==
    \E q \in Reqs \ {p} : pc[q] = "write" /\ storageKey[q] = storageKey[p]

\* POST, lines 136-160: redisGetJson resolves; the conflict check; the new
\* record is built (and the clock read) before the await on redisSetJson.
PostRead(p) ==
    LET stored == redisGetJson(store, storageKey[p])
        existingRecord == ExistingRecord(stored)
    IN  /\ pc[p] = "read" /\ req[p].method = "POST"
        /\ reads' = [reads EXCEPT ![p] = @ + 1]
        /\ existing' = [existing EXCEPT ![p] = stored]
        /\ raced' = (raced \/ WriteInFlight(p))
        /\ IF IsConflict(existingRecord, candidate[p])
           THEN /\ Return(p, ConflictResponse(existingRecord))
                /\ UNCHANGED nextRecord
           ELSE /\ pc' = [pc EXCEPT ![p] = "write"]
                /\ nextRecord' =
                       [nextRecord EXCEPT ![p] = NextRecord(candidate[p], clock)]
                /\ UNCHANGED resp
        /\ UNCHANGED <<redisConfigured, store, clock, expired, lastWrite, req,
                       storageKey, candidate, writes, storeError>>

\* POST, lines 172-179: redisGetJson rejects.
\* Faulty variant: a failed read is taken for an empty key.
PostReadFailureIgnored(p) ==
    /\ pc[p] = "read" /\ req[p].method = "POST"
    /\ reads' = [reads EXCEPT ![p] = @ + 1]
    /\ storeError' = [storeError EXCEPT ![p] = "read"]
    /\ pc' = [pc EXCEPT ![p] = "write"]
    /\ nextRecord' = [nextRecord EXCEPT ![p] = NextRecord(candidate[p], clock)]
    /\ UNCHANGED <<redisConfigured, store, clock, history, req, storageKey,
                   candidate, existing, writes, resp>>

\* Faulty variant: a failed read is issued again.
PostReadRetried(p) ==
    /\ pc[p] = "read" /\ req[p].method = "POST"
    /\ reads' = [reads EXCEPT ![p] = @ + 1]
    /\ storeError' = [storeError EXCEPT ![p] = "read"]
    /\ UNCHANGED <<redisConfigured, store, clock, history, req, storageKey,
                   candidate, existing, nextRecord, writes, pc, resp>>

PostReadFails(p) ==
    /\ pc[p] = "read" /\ req[p].method = "POST"
    /\ reads' = [reads EXCEPT ![p] = @ + 1]
    /\ storeError' = [storeError EXCEPT ![p] = "read"]
    /\ Return(p, PostFailedResponse)
    /\ UNCHANGED <<redisConfigured, store, clock, history, req, storageKey,
                   candidate, existing, nextRecord, writes>>

\* Faulty variant: the write is skipped when the store holds a newer record.
PostWriteUnlessNewer(p) ==
    LET current == redisGetJson(store, storageKey[p])
    IN  /\ pc[p] = "write"
        /\ writes' = [writes EXCEPT ![p] = @ + 1]
        /\ store' =
               IF /\ isProgressSyncRecord(current)
                  /\ DateParse(current.updatedAt)
                         > DateParse(nextRecord[p].updatedAt)
               THEN store
               ELSE redisSetJson(store, storageKey[p], nextRecord[p],
                                 PROGRESS_SYNC_TTL_SECONDS, clock)
        /\ lastWrite' = [lastWrite EXCEPT ![storageKey[p]] = p]
        /\ Return(p, SyncedResponse(nextRecord[p]))
        /\ UNCHANGED <<redisConfigured, clock, expired, raced, req,
                       storageKey, candidate, existing, nextRecord, reads,
                       storeError>>

\* POST, lines 162-171: redisSetJson resolves.
\* Faulty variant: an overwrite keeps the time to live of the entry it
\* replaces.
PostWriteKeepTtl(p) ==
    /\ pc[p] = "write"
    /\ writes' = [writes EXCEPT ![p] = @ + 1]
    /\ store' =
           [store EXCEPT ![storageKey[p]] =
               [value |-> nextRecord[p],
                expires |-> IF @.expires > 0 THEN @.expires
                            ELSE clock + PROGRESS_SYNC_TTL_SECONDS]]
    /\ lastWrite' = [lastWrite EXCEPT ![storageKey[p]] = p]
    /\ Return(p, SyncedResponse(nextRecord[p]))
    /\ UNCHANGED <<redisConfigured, clock, expired, raced, req, storageKey,
                   candidate, existing, nextRecord, reads, storeError>>

PostWrite(p) ==
    /\ pc[p] = "write"
    /\ writes' = [writes EXCEPT ![p] = @ + 1]
    /\ store' = redisSetJson(store, storageKey[p], nextRecord[p],
                             PROGRESS_SYNC_TTL_SECONDS, clock)
    /\ lastWrite' = [lastWrite EXCEPT ![storageKey[p]] = p]
    /\ Return(p, SyncedResponse(nextRecord[p]))
    /\ UNCHANGED <<redisConfigured, clock, expired, raced, req, storageKey,
                   candidate, existing, nextRecord, reads, storeError>>

\* POST, lines 172-179: redisSetJson rejects; the store keeps what it held.
\* Faulty variant: a failed write is not noticed.
PostWriteFailsSilently(p) ==
    /\ pc[p] = "write"
    /\ writes' = [writes EXCEPT ![p] = @ + 1]
    /\ storeError' = [storeError EXCEPT ![p] = "write"]
    /\ Return(p, SyncedResponse(nextRecord[p]))
    /\ UNCHANGED <<redisConfigured, store, clock, history, req, storageKey,
                   candidate, existing, nextRecord, reads>>

\* Faulty variant: a failed write is made up for by removing the entry.
PostWriteFailsClears(p) ==
    /\ pc[p] = "write"
    /\ writes' = [writes EXCEPT ![p] = @ + 1]
    /\ storeError' = [storeError EXCEPT ![p] = "write"]
    /\ store' = [store EXCEPT ![storageKey[p]] = Absent]
    /\ Return(p, PostFailedResponse)
    /\ UNCHANGED <<redisConfigured, clock, history, req, storageKey,
                   candidate, existing, nextRecord, reads>>

PostWriteFails(p) ==
    /\ pc[p] = "write"
    /\ writes' = [writes EXCEPT ![p] = @ + 1]
    /\ storeError' = [storeError EXCEPT ![p] = "write"]
    /\ Return(p, PostFailedResponse)
    /\ UNCHANGED <<redisConfigured, store, clock, history, req, storageKey,
                   candidate, existing, nextRecord, reads>>

\* A second passes: the clock advances and the store drops what expired.
Tick ==
    /\ clock < MaxClock
    /\ clock' = clock + 1
    /\ store' = Expire(store, clock + 1)
    /\ expired' = [k \in StorageKeys |->
                      IF store'[k] # store[k] THEN store[k].value ELSE expired[k]]
    /\ UNCHANGED <<redisConfigured, raced, lastWrite, local>>

\* The steps of the handlers once a request is in.
Serve ==
    \/ \E p \in Reqs : GetRead(p)
    \/ \E p \in Reqs : GetReadFails(p)
    \/ \E p \in Reqs : PostRead(p)
    \/ \E p \in Reqs : PostReadFails(p)
    \/ \E p \in Reqs : PostWrite(p)
    \/ \E p \in Reqs : PostWriteFails(p)
    \/ Tick

\* Concurrent requests on one key.
Next ==
    \/ \E p \in Reqs, h \in Headers : MayArrive(p) /\ GetBegin(p, h)
    \/ \E p \in Reqs, h \in Headers, b \in Bodies :
           MayArrive(p) /\ PostBegin(p, h, b)
    \/ Serve

Spec == Init /\ [][Next]_vars

\* Two requests, one after the other, with every shape of header and body.
InputReqs == {1, 2}

InputNext ==
    \/ \E p \in InputReqs, h \in AllHeaders : MayArriveAlone(p) /\ GetBegin(p, h)
    \/ \E p \in InputReqs, h \in AllHeaders, b \in AllBodies :
           MayArriveAlone(p) /\ PostBegin(p, h, b)
    \/ Serve

InputSpec == Init /\ [][InputNext]_vars

(***************************************************************************)
(* Properties.                                                             *)
(***************************************************************************)
IsSubmit(p) == req[p].method = "POST"
IsFetch(p) == req[p].method = "GET"
\* The handler's read of the store returned.
ReadOk(p) == reads[p] = 1 /\ storeError[p] # "read"
\* It returned a structurally valid record.
ReadRecord(p) == ReadOk(p) /\ isProgressSyncRecord(existing[p])
CandidateInstant(p) == DateParse(candidate[p].updatedAt)
ExistingInstant(p) == DateParse(existing[p].updatedAt)
Entry(p) == store[storageKey[p]]
\* The Submit was let through by the conflict check: it is about to write,
\* or has written and answered 200, or its write failed.
Accepted(p) ==
    \/ pc[p] = "write"
    \/ pc[p] = "done" /\ resp[p].status = 200 /\ writes[p] = 1
    \/ pc[p] = "done" /\ storeError[p] = "write"
\* The step in which Submit p's write lands.
WriteLands(p) == pc[p] = "write" /\ pc'[p] = "done" /\ storeError'[p] = "none"
\* The step lands the candidate of p: 200, and the store holds its fields.
LandsCandidate(p) ==
    /\ resp'[p].status = 200
    /\ store'[storageKey[p]].value.updatedAt = candidate[p].updatedAt
    /\ store'[storageKey[p]].value.snapshot = candidate[p].snapshot

\* C1: a Submit whose candidate is strictly older than the record it read
\* is answered 409 CONFLICT and issues no store write; the step that answers
\* 409 leaves the whole store as it was.
C1_Inv ==
    \A p \in Reqs :
        (IsSubmit(p) /\ ReadRecord(p) /\ CandidateInstant(p) < ExistingInstant(p))
        => /\ pc[p] = "done"
           /\ resp[p].status = 409
           /\ resp[p].body.code = "CONFLICT"
           /\ writes[p] = 0
C1_Step ==
    \A p \in Reqs : (resp[p].status # 409 /\ resp'[p].status = 409) => store' = store
C1_OlderIsConflict == []C1_Inv /\ [][C1_Step]_vars
C1_Witness ==
    \E p \in Reqs :
        /\ IsSubmit(p) /\ ReadRecord(p) /\ CandidateInstant(p) < ExistingInstant(p)
        /\ resp[p].status = 409
        /\ Entry(p).value = existing[p]

\* C2: a Submit whose candidate is strictly newer than the record it read is
\* let through (never 409) and, store calls succeeding, answered 200; the
\* step in which its write lands leaves the candidate's updatedAt and
\* snapshot, unchanged, in the store.
C2_Inv ==
    \A p \in Reqs :
        (IsSubmit(p) /\ ReadRecord(p) /\ CandidateInstant(p) > ExistingInstant(p))
        => Accepted(p)
C2_Step ==
    \A p \in Reqs :
        (WriteLands(p) /\ ReadRecord(p) /\ CandidateInstant(p) > ExistingInstant(p))
        => LandsCandidate(p)
C2_NewerIsStored == []C2_Inv /\ [][C2_Step]_vars
C2_Witness ==
    \E p \in Reqs :
        /\ IsSubmit(p) /\ ReadRecord(p) /\ CandidateInstant(p) > ExistingInstant(p)
        /\ resp[p].status = 200
        /\ Entry(p).value.updatedAt = candidate[p].updatedAt
        /\ Entry(p).value.snapshot = candidate[p].snapshot
        /\ Entry(p).value.snapshot # existing[p].snapshot

\* C3: a Submit whose candidate denotes the same instant as the record it
\* read is let through and written, never answered 409.
C3_Inv ==
    \A p \in Reqs :
        (IsSubmit(p) /\ ReadRecord(p) /\ CandidateInstant(p) = ExistingInstant(p))
        => Accepted(p)
C3_Step ==
    \A p \in Reqs :
        (WriteLands(p) /\ ReadRecord(p) /\ CandidateInstant(p) = ExistingInstant(p))
        => LandsCandidate(p)
C3_TieIsAccepted == []C3_Inv /\ [][C3_Step]_vars
\* A client re-sends, unchanged, a Submit that was accepted: accepted again.
C3_Witness ==
    \E p, q \in Reqs :
        /\ p # q /\ IsSubmit(p) /\ IsSubmit(q) /\ req[q] = req[p]
        /\ resp[p].status = 200
        /\ ReadRecord(q) /\ existing[q] = nextRecord[p]
        /\ resp[q].status = 200
        /\ Entry(q).value = nextRecord[q]

\* C4: a 409 is only ever the answer of a Submit that read a structurally
\* valid record whose updatedAt is strictly later than the candidate's.
C4_ConflictOnlyIfOlder ==
    \A p \in Reqs :
        resp[p].status = 409
        => IsSubmit(p) /\ ReadRecord(p) /\ CandidateInstant(p) < ExistingInstant(p)
C4_Witness ==
    \E p, q \in Reqs :
        /\ resp[p].status = 409
        /\ IsSubmit(q) /\ ReadOk(q) /\ existing[q] = Foreign.value
        /\ CandidateInstant(q) < DateParse(Foreign.value.updatedAt)
        /\ resp[q].status = 200

\* C5: a Submit that finds no value under its key, never written or expired,
\* is let through whatever its updatedAt, and answered 200 when its write
\* succeeds.
C5_NoRecordIsAccepted ==
    \A p \in Reqs :
        (IsSubmit(p) /\ ReadOk(p) /\ existing[p] = Null) => Accepted(p)
\* The record under the key expired; an older candidate is then accepted.
C5_Witness ==
    \E p \in Reqs :
        /\ IsSubmit(p) /\ ReadOk(p) /\ existing[p] = Null
        /\ resp[p].status = 200
        /\ isProgressSyncRecord(expired[storageKey[p]])
        /\ CandidateInstant(p) < DateParse(expired[storageKey[p]].updatedAt)

\* C6: the record left under a key is the one whose write landed last,
\* whatever its updatedAt; two Submits that read the same record can both
\* pass the conflict check, and the older of the two can land last.
C6_LastWriteStays ==
    \A k \in StorageKeys :
        lastWrite[k] # 0
        => store[k] = Absent \/ store[k].value = nextRecord[lastWrite[k]]
C6_Witness ==
    \E p, q \in Reqs :
        /\ p # q /\ IsSubmit(p) /\ IsSubmit(q) /\ storageKey[p] = storageKey[q]
        /\ ReadRecord(p) /\ ReadRecord(q) /\ existing[p] = existing[q]
        /\ resp[p].status = 200 /\ resp[q].status = 200
        /\ lastWrite[storageKey[q]] = q
        /\ Entry(q).value = nextRecord[q]
        /\ DateParse(nextRecord[q].updatedAt) < DateParse(nextRecord[p].updatedAt)

SubmitsOn(k) == {p \in Reqs : IsSubmit(p) /\ storageKey[p] = k}
AcceptedOn(k) == {p \in SubmitsOn(k) : resp[p].status = 200}
\* No request on key k is in flight.
Settled(k) == \A p \in Reqs : storageKey[p] = k => pc[p] = "done"
GreatestAccepted(k) ==
    CHOOSE m \in {CandidateInstant(p) : p \in AcceptedOn(k)} :
        \A p \in AcceptedOn(k) : CandidateInstant(p) <= m
HoldsGreatest(k) ==
    /\ isProgressSyncRecord(store[k].value)
    /\ DateParse(store[k].value.updatedAt) = GreatestAccepted(k)

\* C7 as stated: once the Submits on a key have completed, in whatever
\* interleaving and with no expiry, the store holds the greatest accepted
\* updatedAt.
C7_Original ==
    \A k \in StorageKeys :
        (Settled(k) /\ expired[k] = Null /\ AcceptedOn(k) # {})
        => HoldsGreatest(k)
\* C7 as amended: the same, for Submits none of which read the key between
\* another's read and write.
C7_GreatestWinsUnlessRaced ==
    \A k \in StorageKeys :
        (Settled(k) /\ expired[k] = Null /\ AcceptedOn(k) # {} /\ ~raced)
        => HoldsGreatest(k)
C7_Witness ==
    \E k \in StorageKeys :
        /\ Settled(k) /\ expired[k] = Null /\ ~raced
        /\ Cardinality(AcceptedOn(k)) = 2
        /\ \E p \in SubmitsOn(k) : resp[p].status = 409
        /\ \E p \in AcceptedOn(k) : CandidateInstant(p) < GreatestAccepted(k)
        /\ HoldsGreatest(k)

KeyInvalid(p) == normalizeSyncKey(req[p].header) = Null
BodyInvalid(p) ==
    /\ IsSubmit(p)
    /\ \/ ~req[p].body.parses
       \/ ~validateProgressSyncRequestBody(req[p].body.json).ok
IsClientError(r, status, code) == r.status = status /\ r.body.code = code

\* C8: a request whose key is missing or invalid, or a Submit whose body
\* does not parse or fails validation, ends without a store read or write,
\* in a step that leaves the store as it was; the backend being configured,
\* its answer is INVALID_SYNC_KEY, INVALID_PAYLOAD or PAYLOAD_TOO_LARGE.
C8_Inv ==
    \A p \in Reqs :
        (pc[p] # "idle" /\ (KeyInvalid(p) \/ BodyInvalid(p)))
        => /\ pc[p] = "done"
           /\ reads[p] = 0
           /\ writes[p] = 0
           /\ redisConfigured =>
                  IF KeyInvalid(p)
                  THEN IsClientError(resp[p], 400, "INVALID_SYNC_KEY")
                  ELSE \/ IsClientError(resp[p], 400, "INVALID_PAYLOAD")
                       \/ IsClientError(resp[p], 413, "PAYLOAD_TOO_LARGE")
C8_Step ==
    \A p \in Reqs :
        (pc[p] = "idle" /\ pc'[p] = "done") => store' = store
C8_InvalidNeverReachesStore == []C8_Inv /\ [][C8_Step]_vars
\* An invalid key on a Fetch, then a too-large body on a Submit, over a
\* store that holds a value.
C8_Witness ==
    /\ redisConfigured
    /\ store # [k \in StorageKeys |-> Absent]
    /\ \E p, q \in Reqs :
        /\ IsFetch(p) /\ KeyInvalid(p) /\ req[p].header # Null
        /\ IsClientError(resp[p], 400, "INVALID_SYNC_KEY")
        /\ IsSubmit(q) /\ ~KeyInvalid(q) /\ BodyInvalid(q)
        /\ IsClientError(resp[q], 413, "PAYLOAD_TOO_LARGE")
        /\ reads[p] + reads[q] + writes[p] + writes[q] = 0

\* C9 as stated: a request whose store call failed is answered 503.
C9_Original ==
    \A p \in Reqs : storeError[p] # "none" => resp[p].status = 503
\* C9 as amended: it is answered 500 SERVER_ERROR.
C9_StoreFailureIs500 ==
    \A p \in Reqs :
        storeError[p] # "none"
        => pc[p] = "done" /\ IsClientError(resp[p], 500, "SERVER_ERROR")
\* The read of a Fetch, the read of a Submit and the write of a Submit fail.
C9_Witness ==
    \E p, q, r \in Reqs :
        /\ IsFetch(p) /\ storeError[p] = "read"
        /\ IsSubmit(q) /\ storeError[q] = "read"
        /\ IsSubmit(r) /\ storeError[r] = "write"
        /\ resp[p].status = 500 /\ resp[q].status = 500 /\ resp[r].status = 500

SyncedFields == {"synced", "updatedAt", "serverUpdatedAt"}
AcceptedFields == {"accepted", "updatedAt", "serverUpdatedAt"}

\* C10 as stated: the 200 of a Submit carries {accepted: true, updatedAt,
\* serverUpdatedAt}, the two timestamps being those of the record written.
C10_Original ==
    \A p \in Reqs :
        (IsSubmit(p) /\ resp[p].status = 200)
        => /\ DOMAIN resp[p].body = AcceptedFields
           /\ resp[p].body.accepted = TRUE
           /\ resp[p].body.updatedAt = nextRecord[p].updatedAt
           /\ resp[p].body.serverUpdatedAt = nextRecord[p].serverUpdatedAt
\* C10 as amended: it carries {synced: true, updatedAt, serverUpdatedAt},
\* the two timestamps being those of the record that the Submit's write
\* left in the store.
C10_Inv ==
    \A p \in Reqs :
        (IsSubmit(p) /\ resp[p].status = 200)
        => /\ writes[p] = 1
           /\ DOMAIN resp[p].body = SyncedFields
           /\ resp[p].body.synced = TRUE
           /\ resp[p].body.updatedAt = nextRecord[p].updatedAt
           /\ resp[p].body.serverUpdatedAt = nextRecord[p].serverUpdatedAt
C10_Step ==
    \A p \in Reqs :
        WriteLands(p)
        => /\ resp'[p].status = 200
           /\ store'[storageKey[p]].value = nextRecord[p]
           /\ resp'[p].body.updatedAt = store'[storageKey[p]].value.updatedAt
           /\ resp'[p].body.serverUpdatedAt
                  = store'[storageKey[p]].value.serverUpdatedAt
C10_SyncedResponse == []C10_Inv /\ [][C10_Step]_vars
\* A Submit answered 200 after the clock moved between its read and write.
C10_Witness ==
    \E p \in Reqs :
        /\ IsSubmit(p) /\ resp[p].status = 200
        /\ resp[p].body.synced = TRUE
        /\ Entry(p).value = nextRecord[p]
        /\ Entry(p).expires
               > DateParse(resp[p].body.serverUpdatedAt) + PROGRESS_SYNC_TTL_SECONDS

PublicFields == {"updatedAt", "serverUpdatedAt", "snapshot"}
\* The fields of record v that leave the server.
Public(v) ==
    [updatedAt |-> v.updatedAt, serverUpdatedAt |-> v.serverUpdatedAt,
     snapshot |-> v.snapshot]
\* The step in which the read of request p returns.
ReadReturns(p) == pc[p] = "read" /\ pc'[p] # "read" /\ storeError'[p] = "none"

\* C11: a 409 carries, under latest, the updatedAt, serverUpdatedAt and
\* snapshot of the record as that Submit read it, and nothing else of it.
C11_ConflictCarriesExisting ==
    \A p \in Reqs :
        resp[p].status = 409
        => /\ "latest" \in DOMAIN resp[p].body
           /\ DOMAIN resp[p].body.latest = PublicFields
           /\ resp[p].body.latest = Public(existing[p])
C11_Witness ==
    \E p, q \in Reqs :
        /\ resp[p].status = 409
        /\ IsSubmit(q) /\ resp[q].status = 200 /\ existing[p] = nextRecord[q]
        /\ resp[p].body.latest.updatedAt = candidate[q].updatedAt
        /\ resp[p].body.latest.serverUpdatedAt # resp[p].body.latest.updatedAt
        /\ resp[p].body.latest.snapshot = candidate[q].snapshot

\* C12: a Fetch whose read returns answers 404 NOT_FOUND when the key held
\* nothing or a structurally invalid value, and otherwise 200 with exactly
\* the updatedAt, serverUpdatedAt and snapshot held, without schemaVersion.
C12_Inv ==
    \A p \in Reqs :
        (IsFetch(p) /\ ReadOk(p))
        => IF isProgressSyncRecord(existing[p])
           THEN /\ resp[p].status = 200
                /\ DOMAIN resp[p].body = PublicFields
                /\ resp[p].body = Public(existing[p])
           ELSE IsClientError(resp[p], 404, "NOT_FOUND")
C12_Step ==
    \A p \in Reqs :
        (ReadReturns(p) /\ IsFetch(p)) => existing'[p] = Entry(p).value
C12_FetchAnswer == []C12_Inv /\ [][C12_Step]_vars
C12_Witness ==
    \E p, q \in Reqs :
        /\ IsFetch(p) /\ ReadOk(p) /\ existing[p] = Foreign.value
        /\ resp[p].status = 404
        /\ IsFetch(q) /\ ReadOk(q) /\ resp[q].status = 200
        /\ existing[q].schemaVersion = 1
        /\ resp[q].body.snapshot = existing[q].snapshot

\* C13: a Fetch that finds its key empty, never written or expired, gets
\* the 404 NOT_FOUND response, the same in both cases, never a 500 or 503.
C13_Inv ==
    \A p \in Reqs :
        (IsFetch(p) /\ ReadOk(p) /\ existing[p] = Null)
        => resp[p] = createErrorResponse(404, "NOT_FOUND",
                         "No synced progress found for this key.", NoExtra)
C13_Step ==
    \A p \in Reqs :
        (ReadReturns(p) /\ IsFetch(p) /\ Entry(p) = Absent)
        => existing'[p] = Null /\ resp'[p].status = 404
C13_EmptyKeyIsNotFound == []C13_Inv /\ [][C13_Step]_vars
\* One Fetch before the key was written, one after its record expired.
C13_Witness ==
    \E p, q \in Reqs :
        /\ p < q /\ storageKey[p] = storageKey[q]
        /\ IsFetch(p) /\ ReadOk(p) /\ existing[p] = Null
        /\ IsFetch(q) /\ ReadOk(q) /\ existing[q] = Null
        /\ lastWrite[storageKey[q]] # 0
        /\ isProgressSyncRecord(expired[storageKey[q]])
        /\ resp[p].status = 404 /\ resp[q] = resp[p]

\* The last Submit whose write landed on key k, 0 when there is none.
\* While the entry is present its record has not expired since.
Holder(k) == IF store[k] = Absent THEN 0 ELSE lastWrite[k]
\* C14: while the record of an accepted Submit p stays in the store, every
\* Fetch of the key reads back p's updatedAt and snapshot and the
\* serverUpdatedAt that p's 200 reported, every Submit older than p is
\* answered 409 with latest.updatedAt that of p, and neither changes the
\* store.
C14_Step ==
    \A q \in Reqs :
        LET p == Holder(storageKey[q]) IN
        (ReadReturns(q) /\ p # 0)
        => /\ IsFetch(q)
              => /\ resp'[q].status = 200
                 /\ resp'[q].body.updatedAt = candidate[p].updatedAt
                 /\ resp'[q].body.snapshot = candidate[p].snapshot
                 /\ resp'[q].body.serverUpdatedAt = resp[p].body.serverUpdatedAt
                 /\ store' = store
           /\ (IsSubmit(q) /\ CandidateInstant(q) < CandidateInstant(p))
              => /\ resp'[q].status = 409
                 /\ resp'[q].body.latest.updatedAt = candidate[p].updatedAt
                 /\ store' = store
C14_RoundTrip == [][C14_Step]_vars
\* p was accepted, then q was turned down and r fetched p's record.
C14_Witness ==
    \E p, q, r \in Reqs :
        /\ IsSubmit(p) /\ resp[p].status = 200
        /\ Holder(storageKey[p]) = p /\ Entry(p).value = nextRecord[p]
        /\ IsSubmit(q) /\ resp[q].status = 409 /\ existing[q] = nextRecord[p]
        /\ IsFetch(r) /\ resp[r].status = 200 /\ existing[r] = nextRecord[p]
        /\ resp[r].body.serverUpdatedAt = resp[p].body.serverUpdatedAt
        /\ resp[r].body.serverUpdatedAt # ToISOString(clock)

\* Submit p, on a configured backend and with a valid key, has a body that
\* fails.
PayloadFails(p) ==
    IsSubmit(p) /\ redisConfigured /\ ~KeyInvalid(p) /\ BodyInvalid(p)
\* The body of p fails only by the size of its snapshot.
SnapshotTooLarge(p) ==
    LET body == req[p].body IN
    /\ body.parses /\ IsObject(body.json)
    /\ "snapshot" \in DOMAIN body.json /\ IsObject(body.json.snapshot)
    /\ SerializedSize(body.json.snapshot) > MAX_SNAPSHOT_BYTES
    /\ validateProgressSyncRequestBody([body.json EXCEPT !.snapshot = S1]).ok
HasCode(r, code) == "code" \in DOMAIN r.body /\ r.body.code = code
\* C15: a failing payload is answered 413 PAYLOAD_TOO_LARGE when its
\* snapshot is too large and 400 INVALID_PAYLOAD in every other case; no
\* response pairs 413 with another code or PAYLOAD_TOO_LARGE with another
\* status, and INVALID_PAYLOAD only comes with 400.
C15_PayloadFailureKinds ==
    \A p \in InputReqs :
        /\ PayloadFails(p)
           => /\ pc[p] = "done"
              /\ IF SnapshotTooLarge(p)
                 THEN IsClientError(resp[p], 413, "PAYLOAD_TOO_LARGE")
                 ELSE IsClientError(resp[p], 400, "INVALID_PAYLOAD")
        /\ resp[p].status = 413 <=> HasCode(resp[p], "PAYLOAD_TOO_LARGE")
        /\ HasCode(resp[p], "INVALID_PAYLOAD") => resp[p].status = 400
C15_Witness ==
    \E p, q \in InputReqs :
        /\ PayloadFails(p) /\ SnapshotTooLarge(p) /\ resp[p].status = 413
        /\ PayloadFails(q) /\ ~req[q].body.parses /\ resp[q].status = 400

\* C16: on an unconfigured backend every request, Fetch or Submit, is
\* answered 503 SYNC_UNAVAILABLE at once, whatever its key and payload, and
\* the store is neither read nor written.
C16_UnconfiguredIs503 ==
    ~redisConfigured
    => /\ \A p \in InputReqs :
              pc[p] # "idle"
              => /\ pc[p] = "done"
                 /\ IsClientError(resp[p], 503, "SYNC_UNAVAILABLE")
                 /\ reads[p] = 0 /\ writes[p] = 0
       /\ \A k \in StorageKeys : lastWrite[k] = 0 /\ store[k].expires = 0
C16_Witness ==
    \E p, q \in InputReqs :
        /\ ~redisConfigured
        /\ IsFetch(p) /\ ~KeyInvalid(p) /\ resp[p].status = 503
        /\ IsSubmit(q) /\ ~KeyInvalid(q) /\ ~BodyInvalid(q)
        /\ resp[q].status = 503 /\ reads[q] = 0

\* C17: a request reads the store at most once and writes it at most
\* once; a Fetch never writes; a write comes only after the one read has
\* returned; a request whose store call failed is over, answered 500, and
\* issues no further call.
C17_Inv ==
    \A p \in Reqs :
        /\ reads[p] <= 1 /\ writes[p] <= 1
        /\ IsFetch(p) => writes[p] = 0
        /\ writes[p] = 1 => ReadOk(p)
        /\ storeError[p] # "none" => pc[p] = "done" /\ resp[p].status = 500
        /\ storeError[p] = "read" => reads[p] = 1 /\ writes[p] = 0
        /\ storeError[p] = "write" => reads[p] = 1 /\ writes[p] = 1
C17_Step ==
    \A p \in Reqs :
        /\ reads'[p] + writes'[p] <= reads[p] + writes[p] + 1
        /\ storeError[p] # "none"
           => reads'[p] = reads[p] /\ writes'[p] = writes[p]
        /\ writes'[p] > writes[p] => reads[p] = 1 /\ reads'[p] = 1
C17_StoreCallsBounded == []C17_Inv /\ [][C17_Step]_vars
C17_Witness ==
    \E p, q, r \in Reqs :
        /\ IsSubmit(p) /\ storeError[p] = "write"
        /\ reads[p] = 1 /\ writes[p] = 1
        /\ IsSubmit(q) /\ storeError[q] = "read" /\ reads[q] = 1
        /\ IsFetch(r) /\ pc[r] = "done" /\ reads[r] = 1 /\ writes[r] = 0

\* C18: no step of a Fetch, whatever it answers, changes the value or the
\* expiry of any key, and no write is ever counted to a Fetch.
C18_Inv ==
    \A p \in InputReqs :
        IsFetch(p)
        => /\ writes[p] = 0
           /\ \A k \in StorageKeys : lastWrite[k] # p
           /\ resp[p].status \in {0, 200, 400, 404, 500, 503}
C18_Step ==
    \A p \in InputReqs :
        (pc'[p] # pc[p] /\ req'[p].method = "GET") => store' = store
C18_FetchLeavesStore == []C18_Inv /\ [][C18_Step]_vars
\* A record written at one time is fetched at a later one and keeps the
\* expiry it was written with.
C18_Witness ==
    \E p, q \in InputReqs :
        /\ IsSubmit(p) /\ resp[p].status = 200
        /\ IsFetch(q) /\ resp[q].status = 200
        /\ existing[q] = nextRecord[p]
        /\ Entry(q).value = nextRecord[p]
        /\ Entry(q).expires =
               DateParse(nextRecord[p].serverUpdatedAt)
                   + PROGRESS_SYNC_TTL_SECONDS
        /\ Entry(q).expires < clock + PROGRESS_SYNC_TTL_SECONDS

\* The two fields of the body of Submit p that the server keeps.
Core(p) ==
    [updatedAt |-> req[p].body.json.updatedAt,
     snapshot |-> req[p].body.json.snapshot]
\* C19: the record a Submit builds has schemaVersion 1, the updatedAt and
\* snapshot of its body, and as serverUpdatedAt the server clock at the
\* time the Submit was accepted, and that record is what its write stores;
\* two Submits accepted at the same time whose bodies agree on updatedAt
\* and snapshot build the same record, whatever else their bodies carry.
C19_Inv ==
    \A p, q \in InputReqs :
        (nextRecord[p] # Null /\ nextRecord[q] # Null /\ Core(p) = Core(q)
            /\ nextRecord[p].serverUpdatedAt = nextRecord[q].serverUpdatedAt)
        => nextRecord[p] = nextRecord[q]
C19_Step ==
    \A p \in InputReqs :
        /\ (pc[p] = "read" /\ pc'[p] = "write")
           => nextRecord'[p] =
                  [schemaVersion |-> 1,
                   updatedAt |-> req[p].body.json.updatedAt,
                   snapshot |-> req[p].body.json.snapshot,
                   serverUpdatedAt |-> ToISOString(clock)]
        /\ WriteLands(p) => Entry(p)' .value = nextRecord[p]
C19_ServerFieldsAreServers == []C19_Inv /\ [][C19_Step]_vars
\* The first Submit asserts a serverUpdatedAt and a schemaVersion of its
\* own, the second does not; both store the same record.
C19_Witness ==
    \E p, q \in InputReqs :
        /\ p # q /\ IsSubmit(p) /\ IsSubmit(q)
        /\ resp[p].status = 200 /\ resp[q].status = 200
        /\ storageKey[p] = storageKey[q]
        /\ {"serverUpdatedAt", "schemaVersion"} \subseteq DOMAIN req[p].body.json
        /\ req[p].body.json.serverUpdatedAt # nextRecord[p].serverUpdatedAt
        /\ req[p].body.json.schemaVersion # nextRecord[p].schemaVersion
        /\ DOMAIN req[q].body.json = {"updatedAt", "snapshot"}
        /\ Core(p) = Core(q)
        /\ nextRecord[p] = nextRecord[q]
        /\ Entry(q).value = nextRecord[p]

\* Every key normalizeSyncKey can return.
NormalizedKeys ==
    LET Chars == AllowedChars \cup {Space, "!"}
        Raw == UNION {[1..n -> Chars] : n \in 1..(MAX_SYNC_KEY_LENGTH + 1)}
    IN  {normalizeSyncKey(Header(s)) : s \in Raw} \ {Null}
\* The storage key of the sync key request p names.
KeyOf(p) == buildProgressSyncStorageKey(normalizeSyncKey(req[p].header))
\* C20: a request that reaches the store uses the storage key of its own
\* normalized sync key and no other: its read returns the entry of that
\* key, and none of its steps changes the entry of any other key;
\* different normalized keys have different storage keys.
C20_Inv ==
    /\ \A p \in InputReqs :
           (pc[p] \in {"read", "write"} \/ reads[p] > 0)
           => ~KeyInvalid(p) /\ storageKey[p] = KeyOf(p)
    /\ \A k1, k2 \in NormalizedKeys :
           buildProgressSyncStorageKey(k1) = buildProgressSyncStorageKey(k2)
           => k1 = k2
C20_Step ==
    \A p \in InputReqs :
        pc'[p] # pc[p]
        => /\ \A k \in StorageKeys :
                  (normalizeSyncKey(req'[p].header) = Null
                       \/ k # buildProgressSyncStorageKey(
                                  normalizeSyncKey(req'[p].header)))
                  => store'[k] = store[k]
           /\ ReadReturns(p) => existing'[p] = store[KeyOf(p)].value
C20_KeyIsolation == []C20_Inv /\ [][C20_Step]_vars
\* A Submit is accepted on one key; a Fetch of another key finds what was
\* there from the start.
C20_Witness ==
    \E p, q \in InputReqs :
        /\ IsSubmit(p) /\ resp[p].status = 200 /\ writes[p] = 1
        /\ IsFetch(q) /\ ReadOk(q) /\ p < q
        /\ ~KeyInvalid(p) /\ ~KeyInvalid(q) /\ KeyOf(p) # KeyOf(q)
        /\ storageKey[p] # storageKey[q]
        /\ existing[q] = Foreign.value /\ Entry(q) = Foreign
        /\ Entry(p).value = nextRecord[p]

ErrorFields == {"status", "code", "message", "error"}
FailureMessages ==
    {"Failed to fetch synced progress.", "Failed to sync progress."}
\* C21: a request whose store call threw is over and has its response: a
\* 500 or 503 whose body holds the fields of an error response and nothing
\* else, with a code of the taxonomy and the handler's own message; a
\* request has a response exactly when it is over, and a response once
\* given is never replaced.
C21_Inv ==
    \A p \in Reqs :
        /\ storeError[p] # "none"
           => /\ pc[p] = "done"
              /\ resp[p].status \in {500, 503}
              /\ DOMAIN resp[p].body = ErrorFields
              /\ resp[p].body.status = resp[p].status
              /\ resp[p].body.code \in {"SERVER_ERROR", "SYNC_UNAVAILABLE"}
              /\ resp[p].body.message \in FailureMessages
              /\ resp[p].body.error = resp[p].body.message
        /\ pc[p] = "done" <=> resp[p] # NoResponse
C21_Step ==
    \A p \in Reqs : resp[p] # NoResponse => resp'[p] = resp[p]
C21_StoreErrorsAreCaught == []C21_Inv /\ [][C21_Step]_vars
C21_Witness ==
    \E p, q \in Reqs :
        /\ IsFetch(p) /\ storeError[p] = "read" /\ pc[p] = "done"
        /\ resp[p].body.message = "Failed to fetch synced progress."
        /\ IsSubmit(q) /\ storeError[q] = "write" /\ pc[q] = "done"
        /\ resp[q].body.message = "Failed to sync progress."

\* C22: the step in which the write of Submit p lands puts under its key
\* the record with schemaVersion 1, the candidate's updatedAt and snapshot
\* and the serverUpdatedAt taken at acceptance, in place of whatever was
\* there, to expire one full TTL from now; no other step gives an entry a
\* new expiry.
C22_Step ==
    /\ \A p \in Reqs :
           WriteLands(p)
           => /\ store'[storageKey[p]] =
                     [value |-> [schemaVersion |-> 1,
                                 updatedAt |-> candidate[p].updatedAt,
                                 snapshot |-> candidate[p].snapshot,
                                 serverUpdatedAt |->
                                     nextRecord[p].serverUpdatedAt],
                      expires |-> clock + PROGRESS_SYNC_TTL_SECONDS]
              /\ nextRecord[p].serverUpdatedAt.zone = "Z"
              /\ DateParse(nextRecord[p].serverUpdatedAt) <= clock
    /\ \A k \in StorageKeys :
           (store'[k] # store[k] /\ store'[k] # Absent)
           => \E p \in Reqs : WriteLands(p) /\ storageKey[p] = k
C22_WriteContents == [][C22_Step]_vars
\* q overwrote the record of p at a later time: the entry expires one TTL
\* after q's write, later than p's write would have had it.
C22_Witness ==
    \E p, q \in Reqs :
        /\ IsSubmit(p) /\ resp[p].status = 200
        /\ IsSubmit(q) /\ resp[q].status = 200 /\ existing[q] = nextRecord[p]
        /\ candidate[q] # candidate[p]
        /\ Entry(q).value = nextRecord[q]
        /\ Entry(q).expires =
               DateParse(nextRecord[q].serverUpdatedAt)
                   + PROGRESS_SYNC_TTL_SECONDS
        /\ Entry(q).expires >
               DateParse(nextRecord[p].serverUpdatedAt)
                   + PROGRESS_SYNC_TTL_SECONDS

\* C23: a structurally valid record in the store is the record of a Submit
\* for that key whose key and body were valid, whose read returned, whose
\* candidate was not older than the record read, and whose write landed.
C23_RecordsComeFromSubmits ==
    \A k \in StorageKeys :
        isProgressSyncRecord(store[k].value)
        => \E p \in InputReqs :
               /\ lastWrite[k] = p /\ IsSubmit(p) /\ redisConfigured
               /\ ~KeyInvalid(p) /\ KeyOf(p) = k
               /\ ~BodyInvalid(p)
               /\ ReadOk(p)
               /\ \/ ~isProgressSyncRecord(existing[p])
                  \/ shouldAcceptIncomingUpdate(existing[p].updatedAt,
                                                req[p].body.json.updatedAt)
               /\ writes[p] = 1 /\ resp[p].status = 200
               /\ store[k].value = nextRecord[p]
\* The store holds a record while a Submit with a bad body, one with a bad
\* key or one that was older has left no trace.
C23_Witness ==
    \E p, q \in InputReqs :
        /\ IsSubmit(p) /\ resp[p].status = 200
        /\ isProgressSyncRecord(Entry(p).value) /\ lastWrite[storageKey[p]] = p
        /\ IsSubmit(q) /\ p < q
        /\ resp[q].status \in {400, 409, 413}
        /\ \A k \in StorageKeys : lastWrite[k] # q

\* Request p got past the checks of its header and body.
ReachedStore(p) == pc[p] \in {"read", "write"} \/ reads[p] > 0
\* C24: normalizeSyncKey returns its own results unchanged; a request is
\* served under the storage key that normalizing its header twice gives,
\* so that a request whose header is the normalized header of another one
\* is served under the same storage key.
C24_NormalizeIsIdempotent ==
    /\ \A k \in NormalizedKeys : normalizeSyncKey(k) = k
    /\ \A p \in InputReqs :
           ReachedStore(p)
           => /\ ~KeyInvalid(p)
              /\ storageKey[p] =
                     buildProgressSyncStorageKey(
                         normalizeSyncKey(normalizeSyncKey(req[p].header)))
    /\ \A p, q \in InputReqs :
           (ReachedStore(p) /\ ReachedStore(q)
               /\ req[q].header = normalizeSyncKey(req[p].header))
           => storageKey[q] = storageKey[p]
\* The first header has spaces around the key, the second is that key.
C24_Witness ==
    \E p, q \in InputReqs :
        /\ ReachedStore(p) /\ ReachedStore(q)
        /\ req[p].header # normalizeSyncKey(req[p].header)
        /\ req[q].header = normalizeSyncKey(req[p].header)
        /\ IsSubmit(p) /\ resp[p].status = 200
        /\ IsFetch(q) /\ resp[q].status = 200 /\ existing[q] = nextRecord[p]

\* The candidate of p passes the conflict check against what p read.
PassesResolver(p) ==
    \/ ~isProgressSyncRecord(existing[p])
    \/ CandidateInstant(p) >= ExistingInstant(p)
\* C25: a Submit issues its write only once its read has returned and its
\* candidate has passed the conflict check, and before it has answered; a
\* Submit whose read failed or that answered 409 has written nothing.
C25_Inv ==
    \A p \in Reqs :
        /\ (pc[p] = "write" \/ writes[p] > 0) => ReadOk(p) /\ PassesResolver(p)
        /\ (storeError[p] = "read" \/ resp[p].status = 409)
           => /\ writes[p] = 0
              /\ \A k \in StorageKeys : lastWrite[k] # p
C25_Step ==
    \A p \in Reqs :
        writes'[p] > writes[p]
        => /\ ReadOk(p) /\ PassesResolver(p)
           /\ pc[p] = "write" /\ resp[p] = NoResponse
C25_WriteAfterReadAndAccept == []C25_Inv /\ [][C25_Step]_vars
C25_Witness ==
    \E p, q, r \in Reqs :
        /\ IsSubmit(p) /\ writes[p] = 1 /\ ReadOk(p) /\ PassesResolver(p)
        /\ resp[p].status = 200 /\ existing[r] = nextRecord[p]
        /\ IsSubmit(q) /\ storeError[q] = "read" /\ writes[q] = 0
        /\ IsSubmit(r) /\ resp[r].status = 409 /\ writes[r] = 0

\* C26: a Submit that has not got as far as a landed write has left no
\* trace in the store, wherever it stops; an entry changes only when a
\* write lands on it or its TTL runs out; and a request that is over takes
\* no further step, so nothing takes a landed write back.
C26_Inv ==
    \A p \in Reqs :
        (IsSubmit(p) /\ (writes[p] = 0 \/ storeError[p] = "write"))
        => \A k \in StorageKeys : lastWrite[k] # p
C26_Step ==
    /\ \A k \in StorageKeys :
           store'[k] # store[k]
           => \/ \E p \in Reqs :
                     /\ WriteLands(p) /\ storageKey[p] = k
                     /\ store'[k].value = nextRecord[p]
              \/ /\ clock' > clock /\ store'[k] = Absent
                 /\ store[k].expires = clock'
    /\ \A p \in Reqs :
           pc[p] = "done"
           => /\ pc'[p] = "done" /\ writes'[p] = writes[p]
              /\ reads'[p] = reads[p]
C26_NoUndo == []C26_Inv /\ [][C26_Step]_vars
\* Submit p was accepted and has not written; a later request has come and
\* gone, and the store is as p read it. Submit r has written and answered,
\* and its record is there.
C26_Witness ==
    \E p, q, r \in Reqs :
        /\ IsSubmit(p) /\ pc[p] = "write" /\ p < q /\ pc[q] = "done"
        /\ Entry(p).value = existing[p] /\ lastWrite[storageKey[p]] = r
        /\ IsSubmit(r) /\ resp[r].status = 200
        /\ Entry(r).value = nextRecord[r]
        /\ nextRecord[p] # nextRecord[r]

\* C27: as long as no Submit has read while the write of another was
\* outstanding, a step that leaves a record where there was one never
\* leaves one with an earlier updatedAt.
C27_Step ==
    \A k \in StorageKeys :
        (~raced' /\ isProgressSyncRecord(store[k].value) /\ store'[k] # Absent)
        => /\ isProgressSyncRecord(store'[k].value)
           /\ DateParse(store'[k].value.updatedAt)
                  >= DateParse(store[k].value.updatedAt)
C27_UpdatedAtNeverDecreases == [][C27_Step]_vars
\* One after the other: p stored a record, q stored a later one over it,
\* r came with an earlier one and was turned down.
C27_Witness ==
    \E p, q, r \in Reqs :
        /\ ~raced /\ p < q /\ q < r
        /\ IsSubmit(p) /\ resp[p].status = 200
        /\ IsSubmit(q) /\ resp[q].status = 200 /\ existing[q] = nextRecord[p]
        /\ DateParse(nextRecord[q].updatedAt) > DateParse(nextRecord[p].updatedAt)
        /\ IsSubmit(r) /\ resp[r].status = 409 /\ existing[r] = nextRecord[q]
        /\ Entry(q).value = nextRecord[q]

\* The read of Submit p returned a value that is no record.
ReadInvalid(p) ==
    IsSubmit(p) /\ ReadOk(p) /\ existing[p] # Null
        /\ ~isProgressSyncRecord(existing[p])
\* C28: a Submit that read a value which is no record is never answered
\* 409 and is let through whatever updatedAt the value or the candidate
\* carries; the step in which its write lands puts a valid record with the
\* candidate's fields in place of the value.
C28_Inv == \A p \in Reqs : ReadInvalid(p) => resp[p].status # 409 /\ Accepted(p)
C28_Step ==
    \A p \in Reqs :
        (WriteLands(p) /\ ReadInvalid(p))
        => /\ isProgressSyncRecord(store'[storageKey[p]].value)
           /\ LandsCandidate(p)
C28_InvalidValueIsEmpty == []C28_Inv /\ [][C28_Step]_vars
\* The value read asserts a later updatedAt than the candidate does.
C28_Witness ==
    \E p \in Reqs :
        /\ ReadInvalid(p) /\ existing[p] = Foreign.value
        /\ CandidateInstant(p) < DateParse(existing[p].updatedAt)
        /\ resp[p].status = 200
        /\ Entry(p).value = nextRecord[p]
        /\ isProgressSyncRecord(Entry(p).value)

\* C29: a Submit is answered by the first of its checks that fails: 503 on
\* an unconfigured backend; else 400 INVALID_SYNC_KEY for a bad key; else
\* 400 INVALID_PAYLOAD for a body that is not JSON; else the 400 or 413 of
\* the validator; only a Submit that passed all of them reaches the store,
\* and only such a Submit is answered 409.
C29_ChecksInOrder ==
    \A p \in InputReqs :
        (IsSubmit(p) /\ pc[p] # "idle")
        => IF ~redisConfigured
           THEN IsClientError(resp[p], 503, "SYNC_UNAVAILABLE")
           ELSE IF KeyInvalid(p)
           THEN IsClientError(resp[p], 400, "INVALID_SYNC_KEY")
           ELSE IF ~req[p].body.parses
           THEN /\ IsClientError(resp[p], 400, "INVALID_PAYLOAD")
                /\ resp[p].body.message = "Request body must be valid JSON."
           ELSE IF ~validateProgressSyncRequestBody(req[p].body.json).ok
           THEN /\ resp[p].status \in {400, 413}
                /\ resp[p].body.code =
                       validateProgressSyncRequestBody(
                           req[p].body.json).error.code
           ELSE /\ ReachedStore(p)
                /\ resp[p].status \notin {400, 413, 503}
                /\ resp[p].status = 409 => ReadRecord(p)
\* A bad key with a body that is not JSON, and a bad key with a snapshot
\* that is too large, are both answered INVALID_SYNC_KEY.
C29_Witness ==
    \E p, q \in InputReqs :
        /\ redisConfigured /\ IsSubmit(p) /\ IsSubmit(q)
        /\ KeyInvalid(p) /\ ~req[p].body.parses
        /\ resp[p].body.code = "INVALID_SYNC_KEY"
        /\ KeyInvalid(q) /\ SnapshotTooLarge(q)
        /\ resp[q].body.code = "INVALID_SYNC_KEY"

\* The step in which the write of Submit p fails.
WriteFails(p) == pc[p] = "write" /\ storeError'[p] = "write"
\* A 200 of a Submit comes with its one write, which did not fail; a Submit
\* whose write failed is answered 500.
C30_Inv ==
    \A p \in Reqs :
        /\ (IsSubmit(p) /\ resp[p].status = 200)
           => writes[p] = 1 /\ storeError[p] = "none"
        /\ storeError[p] = "write" => resp[p].status = 500
\* C30 as claimed: a 200 only after the write succeeded, an error when it
\* failed, and after the failed write the store holds what the Submit read.
C30_Original ==
    /\ []C30_Inv
    /\ [][\A p \in Reqs :
              WriteFails(p) => store'[storageKey[p]].value = existing[p]]_vars
\* C30 as amended: the failed write leaves the store as it is; the store
\* holds what the Submit read if no Submit has read while the write of
\* another was outstanding and the entry did not expire after the read.
C30_Step ==
    \A p \in Reqs :
        WriteFails(p)
        => /\ store' = store
           /\ (~raced /\ (Entry(p) # Absent \/ existing[p] = Null))
              => Entry(p).value = existing[p]
C30_SuccessOnlyAfterWrite == []C30_Inv /\ [][C30_Step]_vars
C30_Witness ==
    \E p, q \in Reqs :
        /\ ~raced
        /\ IsSubmit(p) /\ storeError[p] = "write" /\ resp[p].status = 500
        /\ ReadRecord(p) /\ Entry(p).value = existing[p]
        /\ IsSubmit(q) /\ resp[q].status = 200 /\ writes[q] = 1
        /\ existing[p] = nextRecord[q]

=============================================================================
